---- MODULE Spec2Model ----
(***************************************************************************)
(* Chunked transfers of aws-sdk-s3-demo: the three multipart uploads of    *)
(* src/utils/upload.rs and the parallel download read_file_big of          *)
(* src/utils/get.rs.  One behaviour is one invocation of one of the four   *)
(* functions; `mode` says which one.                                       *)
(* The earlier sequential upload of src/utils/utils.rs and src/lib.rs runs *)
(* under LegacySpec; try_get_file and the S3 URI functions of              *)
(* src/utils/operations.rs run under CallSpec.                             *)
(*                                                                         *)
(* Every await point of the code is a place where a task can be suspended, *)
(* so every action runs the code from one await point to the next.  The    *)
(* answer of the store (or of the file system) to the awaited call is the  *)
(* input of the action that resumes the task.                              *)
(*                                                                         *)
(* Sizes are u64 in the code.  The inputs of the model stay far below      *)
(* 2^64, where u64 arithmetic and the arithmetic of Integers agree.        *)
(***************************************************************************)
EXTENDS Integers, Sequences, FiniteSets, TLC

\* ------------------------------------------------------------------ bounds
MaxFileLen == 4
MaxChunkSize == 2
MaxMaxChunks == 3
MaxWorkers == 2

\* ------------------------------------------------------- program constants
\* constants.rs sets CHUNKS_WORKERS to 10.  The model takes a smaller budget
\* so that transfers with more chunks than permits stay enumerable; every
\* definition below refers to the budget by name only.
CHUNKS_WORKERS == 2
CHUNKS_MAX_RETRY == 5

Modes == {"sequential", "parallel", "retry", "read_big"}
UploadModes == {"sequential", "parallel", "retry"}
JoinSetModes == {"parallel", "retry"}

VARIABLES
    mode,            \* which function runs
    file_size,       \* the Option<u64> argument: "some" or "none"
    file_len,        \* length of the source file / of the stored object
    chunk_size,      \* chunk_size.unwrap_or(CHUNK_SIZE)
    max_chunks,      \* max_chunks.unwrap_or(MAX_CHUNKS)
    chunks_workers,  \* read_file_big: chunks_workers.unwrap_or(CHUNKS_WORKERS)
    pc,              \* the await point the orchestrating function is at
    outcome,         \* "none", "Completed" (Ok) or "Failed" (Err)
    chunk_count,     \* chunk_count / ranges_len
    part_index,      \* loop variable of the dispatch loop
    permits,         \* permits available in the semaphore
    worker,          \* the spawned tasks, by chunk index
    joined,          \* tasks whose output the orchestrator has taken, in that order
    completed_parts, \* Vec<CompletedPart> of the uploads
    session,         \* store side: the multipart session
    complete_arg,    \* store side: part lists received by complete_multipart_upload
    uploaded_size,   \* size found by the get_object after the upload, -1 before
    size,            \* read_file_big: declared content length
    ranges,          \* read_file_big: Vec<(start, end)>
    results,         \* read_file_big: Vec<Bytes>
    buf,             \* read_file_big: returned buffer
    s3path,          \* S3Path::uri: the S3Path it is called on
    uri,             \* parse_s3_uri: its argument, a string of characters
    parsed,          \* parse_s3_uri: its Result<S3Path, UtilsError>
    resp,            \* try_get_file: the answer of get_object
    got              \* try_get_file: its Result<Option<GetObjectOutput>, _>

vars == <<mode, file_size, file_len, chunk_size, max_chunks, chunks_workers,
          pc, outcome, chunk_count, part_index, permits, worker, joined,
          completed_parts, session, complete_arg, uploaded_size, size, ranges,
          results, buf, s3path, uri, parsed, resp, got>>

\* the variables of the calls that are not chunked transfers
calls == <<s3path, uri, parsed, resp, got>>

inputs == <<mode, file_size, file_len, chunk_size, max_chunks, chunks_workers>>

\* ---------------------------------------------------------------- helpers
Min(a, b) == IF a < b THEN a ELSE b

Range(s) == {s[k] : k \in 1 .. Len(s)}

NoErr == [kind |-> "none", attempt |-> 0]
NoPart == [part_number |-> 0, e_tag |-> 0]
NoRes == [tag |-> "none", part |-> NoPart, bytes |-> <<>>, err |-> NoErr]

\* Option<String>
None == [some |-> FALSE, val |-> <<>>]
Some(v) == [some |-> TRUE, val |-> v]

NoS3Path == [bucket |-> <<>>, prefix |-> None]
NoParsed == [tag |-> "none", path |-> NoS3Path, err |-> "none"]

\* no call of operations.rs or of try_get_file is made
NoCall ==
    /\ s3path = NoS3Path
    /\ uri = <<>>
    /\ parsed = NoParsed
    /\ resp = "none"
    /\ got = "none"

IdleWorker ==
    [st |-> "idle", attempt |-> 0, last_err |-> NoErr, res |-> NoRes,
     permit |-> FALSE, offset |-> 0, len |-> 0, late |-> FALSE,
     last_try |-> FALSE, early |-> FALSE, sent |-> 0, waited |-> 0, waited_prev |-> 0]

Chunks == 0 .. (MaxFileLen - 1)

\* The bytes of the stored object: byte k of the object has value k, so that
\* any reordering or loss of bytes is visible.
object == [k \in 1 .. file_len |-> k]

InFlightSt == {"stream", "send", "sleep", "collect"}
DoneSt == {"ok", "err"}

InFlight(i) == worker[i].st \in InFlightSt
Finished(i) == worker[i].st \in DoneSt

ChunkCountPlusOne(fl, cs) == (fl \div cs) + 1

\* chunk_count = (file_len + chunk_size - 1) / chunk_size
ChunkCount(fl, cs) == (fl + cs - 1) \div cs

\* offset = part_index * chunk_size
Offset(i, cs) == i * cs

\* this_chunk_size = min(chunk_size, file_len - offset)
ThisChunkSize(i, fl, cs) == Min(cs, fl - Offset(i, cs))

PartNumberFromZero(i) == i

\* part_number = (part_index + 1) as i32
PartNumber(i) == i + 1

\* the store's tag for an accepted part
ETag(pn) == 100 + pn

CompletedPart(pn) == [part_number |-> pn, e_tag |-> ETag(pn)]

\* ------------------------------------------------------------------- Init
\* A chunk size of 0 makes the code panic before its first call (division by
\* zero in the uploads, step_by(0) in read_file_big); transfers start from a
\* chunk size of at least 1.
Init ==
    /\ mode \in Modes
    /\ file_size \in {"some", "none"}
    /\ file_len \in 0 .. MaxFileLen
    /\ chunk_size \in 1 .. MaxChunkSize
    /\ max_chunks \in 1 .. MaxMaxChunks
    /\ chunks_workers \in (0 .. MaxWorkers) \cup {CHUNKS_WORKERS}
    /\ (mode # "read_big" => chunks_workers = CHUNKS_WORKERS)
    /\ (mode = "read_big" => file_size = "some" /\ max_chunks = MaxMaxChunks)
    /\ pc = "start"
    /\ outcome = "none"
    /\ chunk_count = 0
    /\ part_index = 0
    /\ permits = 0
    /\ worker = [i \in Chunks |-> IdleWorker]
    /\ joined = <<>>
    /\ completed_parts = <<>>
    /\ session = "none"
    /\ complete_arg = <<>>
    /\ uploaded_size = -1
    /\ size = 0
    /\ ranges = <<>>
    /\ results = <<>>
    /\ buf = <<>>
    /\ NoCall

FailAndStartOver ==
    /\ pc' = "start"
    /\ outcome' = "Failed"

\* `return Err(..)` / `?` of the orchestrating function
Fail ==
    /\ pc' = "done"
    /\ outcome' = "Failed"

\* --------------------------------------------------------------- planning
\* upload.rs: File::open(..).await?.metadata().await? fails
OpenFileFails ==
    /\ mode \in UploadModes
    /\ pc = "start"
    /\ file_size = "none"
    /\ Fail
    /\ UNCHANGED <<inputs, calls, chunk_count, part_index, permits, worker, joined,
                   completed_parts, session, complete_arg, uploaded_size,
                   size, ranges, results, buf>>

NeverEmpty(fl) == FALSE

\* if file_len == 0 { return Err(..) }
IsEmpty(fl) == fl = 0

TooManyButOne(cc, mc) == cc > mc + 1

\* if chunk_count > max_chunks { return Err(..) }
TooMany(cc, mc) == cc > mc

\* upload.rs: from entry to the create_multipart_upload call
Plan ==
    /\ mode \in UploadModes
    /\ pc = "start"
    /\ IF IsEmpty(file_len)
       THEN /\ Fail
            /\ UNCHANGED chunk_count
       ELSE /\ chunk_count' = ChunkCount(file_len, chunk_size)
            /\ IF TooMany(chunk_count', max_chunks)
               THEN Fail
               ELSE /\ pc' = "create"
                    /\ UNCHANGED outcome
    /\ UNCHANGED <<inputs, calls, part_index, permits, worker, joined,
                   completed_parts, session, complete_arg, uploaded_size,
                   size, ranges, results, buf>>

\* ------------------------------------------------------- multipart session
CreateResponses == {"err", "no_id", "ok"}

DefaultUploadId(r) == FALSE

\* multipart_upload_res.upload_id().ok_or_else(..)? finds no upload id
NoUploadId(r) == r = "no_id"

\* the store-side session after an Ok answer of create_multipart_upload: one
\* the store opened without telling its id is "open_no_id"
Opened(r) == IF r = "no_id" THEN "open_no_id" ELSE "open"

\* upload.rs: create_multipart_upload().send().await? and upload_id().ok_or_else(..)?
\* up to the first await of the part loop
CreateMultipart(r) ==
    /\ mode \in UploadModes
    /\ pc = "create"
    /\ IF r = "err"
       THEN /\ Fail
            /\ UNCHANGED <<session, permits>>
       ELSE IF NoUploadId(r)
       THEN /\ Fail
            /\ session' = Opened(r)
            /\ UNCHANGED permits
       ELSE /\ session' = Opened(r)
            /\ UNCHANGED outcome
            /\ IF mode = "sequential"
               THEN /\ pc' = "seq_stream"
                    /\ UNCHANGED permits
               ELSE /\ pc' = "dispatch"
                    /\ permits' = CHUNKS_WORKERS
    /\ UNCHANGED <<inputs, calls, chunk_count, part_index, worker, joined,
                   completed_parts, complete_arg, uploaded_size, size, ranges,
                   results, buf>>

\* ------------------------------------------------------------ the semaphore
AcquireNoWait ==
    permits' = permits - 1

\* Semaphore::acquire_owned().await: waits for a permit and takes it
Acquire ==
    /\ permits > 0
    /\ permits' = permits - 1

\* the task as tasks.spawn / tokio::spawn leaves it: at its first await
Spawned(i) ==
    IF mode = "read_big"
    THEN [IdleWorker EXCEPT !.st = "send", !.permit = TRUE,
                            !.offset = ranges[i + 1][1],
                            !.len = ranges[i + 1][2] - ranges[i + 1][1] + 1]
    ELSE [IdleWorker EXCEPT !.st = "stream", !.permit = TRUE,
                            !.attempt = IF mode = "retry" THEN 1 ELSE 0,
                            !.offset = Offset(i, chunk_size),
                            !.len = ThisChunkSize(i, file_len, chunk_size)]

AllButLastDispatched(n) == n >= chunk_count - 1

\* `for part_index in 0..chunk_count` / `for (i, ..) in ranges` is over
AllDispatched(n) == n = chunk_count

\* one iteration of the dispatch loop: acquire a permit, spawn the task; after
\* the last one read_file_big creates `results` (vec![Bytes::new(); ranges_len])
Dispatch ==
    /\ mode \in JoinSetModes \cup {"read_big"}
    /\ pc = "dispatch"
    /\ part_index < chunk_count
    /\ Acquire
    /\ worker' = [worker EXCEPT ![part_index] = Spawned(part_index)]
    /\ part_index' = part_index + 1
    /\ pc' = IF AllDispatched(part_index') THEN "join" ELSE "dispatch"
    /\ results' = IF mode = "read_big" /\ AllDispatched(part_index')
                  THEN [k \in 1 .. chunk_count |-> <<>>]
                  ELSE results
    /\ UNCHANGED <<inputs, calls, outcome, chunk_count, joined, completed_parts,
                   session, complete_arg, uploaded_size, size, ranges, buf>>

\* ------------------------------------------------------------- task ending
ErrRes(e) == [NoRes EXCEPT !.tag = "err", !.err = e]
OkPart(i) == [NoRes EXCEPT !.tag = "ok", !.part = CompletedPart(PartNumber(i))]
OkBytes(b) == [NoRes EXCEPT !.tag = "ok", !.bytes = b]

FinishKeepingPermit(i, r) ==
    /\ worker' = [worker EXCEPT ![i] =
                    [@ EXCEPT !.st = IF r.tag = "ok" THEN "ok" ELSE "err",
                              !.res = r,
                              !.last_err = NoErr, !.attempt = 0,
                              !.sent = 0, !.waited = 0, !.waited_prev = 0,
                              !.late = (pc = "done"),
                              !.last_try = (r.tag = "ok"
                                  /\ worker[i].attempt = CHUNKS_MAX_RETRY),
                              !.early = (mode = "retry" /\ r.tag = "err"
                                  /\ worker[i].attempt < CHUNKS_MAX_RETRY)]]
    /\ UNCHANGED permits

\* the task's future completes with output r; its locals, the permit among
\* them, are dropped with it.  `late` records that the orchestrating function
\* had returned by then, `last_try` that the output is the Ok of attempt
\* CHUNKS_MAX_RETRY, `early` that it is an Err returned from the retry loop
\* before attempt CHUNKS_MAX_RETRY.
Finish(i, r) ==
    /\ worker' = [worker EXCEPT ![i] =
                    [@ EXCEPT !.st = IF r.tag = "ok" THEN "ok" ELSE "err",
                              !.res = r, !.permit = FALSE,
                              !.last_err = NoErr, !.attempt = 0,
                              !.sent = 0, !.waited = 0, !.waited_prev = 0,
                              !.late = (pc = "done"),
                              !.last_try = (r.tag = "ok"
                                  /\ worker[i].attempt = CHUNKS_MAX_RETRY),
                              !.early = (mode = "retry" /\ r.tag = "err"
                                  /\ worker[i].attempt < CHUNKS_MAX_RETRY)]]
    /\ permits' = permits + 1

WorkerFrame ==
    UNCHANGED <<inputs, calls, pc, outcome, chunk_count, part_index, joined,
                completed_parts, session, complete_arg, uploaded_size, size,
                ranges, results, buf>>

\* ------------------------------- worker of upload_object_multipart_parallel
\* ByteStream::read_from()...build().await.map_err(..)?
ParStream(i, r) ==
    /\ mode = "parallel"
    /\ worker[i].st = "stream"
    /\ IF r = "err"
       THEN Finish(i, ErrRes([kind |-> "stream", attempt |-> 0]))
       ELSE /\ worker' = [worker EXCEPT ![i].st = "send"]
            /\ UNCHANGED permits
    /\ WorkerFrame

\* upload_part()...send().await.map_err(..)?, e_tag.ok_or_else(..)?, drop(permit)
ParSend(i, r) ==
    /\ mode = "parallel"
    /\ worker[i].st = "send"
    /\ IF r = "err"
       THEN Finish(i, ErrRes([kind |-> "upload", attempt |-> 0]))
       ELSE IF r = "no_etag"
       THEN Finish(i, ErrRes([kind |-> "etag", attempt |-> 0]))
       ELSE Finish(i, OkPart(i))
    /\ WorkerFrame

\* ------------------------- worker of upload_object_multipart_parallel_retry
\* the time the task has slept in the iteration that ends: 300 ms times the
\* attempt number after a failed upload_part, nothing after a failed build
Slept(i) == IF worker[i].st = "sleep" THEN 300 * worker[i].attempt ELSE 0

GiveUpEarly(i, e) ==
    IF worker[i].attempt < CHUNKS_MAX_RETRY - 1
    THEN /\ worker' = [worker EXCEPT ![i] =
                         [@ EXCEPT !.st = "stream", !.attempt = @ + 1,
                                   !.last_err = e, !.sent = 0,
                                   !.waited = Slept(i),
                                   !.waited_prev = worker[i].waited]]
         /\ UNCHANGED permits
    ELSE Finish(i, ErrRes(e))

\* the end of an iteration of `for attempt in 1..=CHUNKS_MAX_RETRY`: the next
\* attempt, or Err(last_err.unwrap_or_else(..)) after the last one.  `waited`
\* is the time slept before the attempt that starts, `waited_prev` the time
\* slept before the one that ends, `sent` the upload_part calls of the attempt.
NextAttempt(i, e) ==
    IF worker[i].attempt < CHUNKS_MAX_RETRY
    THEN /\ worker' = [worker EXCEPT ![i] =
                         [@ EXCEPT !.st = "stream", !.attempt = @ + 1,
                                   !.last_err = e, !.sent = 0,
                                   !.waited = Slept(i),
                                   !.waited_prev = worker[i].waited]]
         /\ UNCHANGED permits
    ELSE Finish(i, ErrRes(IF e = NoErr
                          THEN [kind |-> "unknown", attempt |-> 0]
                          ELSE e))

\* build().await; on Err: last_err = Some(..); continue.  On Ok the
\* upload_part call is sent.
RetryStream(i, r) ==
    /\ mode = "retry"
    /\ worker[i].st = "stream"
    /\ IF r = "err"
       THEN NextAttempt(i, [kind |-> "stream", attempt |-> worker[i].attempt])
       ELSE /\ worker' = [worker EXCEPT ![i] =
                            [@ EXCEPT !.st = "send", !.sent = @ + 1]]
            /\ UNCHANGED permits
    /\ WorkerFrame

RetryMissingETag(i) ==
    /\ worker' = [worker EXCEPT ![i] =
                    [@ EXCEPT !.st = "sleep",
                              !.last_err = [kind |-> "etag",
                                            attempt |-> worker[i].attempt]]]
    /\ UNCHANGED permits

\* upload_part.e_tag.ok_or_else(..)? in the retry loop: the task returns Err
MissingETag(i) == Finish(i, ErrRes([kind |-> "etag", attempt |-> 0]))

RetrySendFreesPermit(i, r) ==
    /\ mode = "retry"
    /\ worker[i].st = "send"
    /\ IF r = "err"
       THEN /\ worker' = [worker EXCEPT ![i] =
                            [@ EXCEPT !.st = "sleep", !.permit = FALSE,
                                      !.last_err = [kind |-> "upload",
                                                    attempt |-> worker[i].attempt]]]
            /\ permits' = permits + 1
       ELSE IF r = "no_etag"
       THEN MissingETag(i)
       ELSE Finish(i, OkPart(i))
    /\ WorkerFrame

\* upload_part()...send().await and the match on its result
RetrySend(i, r) ==
    /\ mode = "retry"
    /\ worker[i].st = "send"
    /\ IF r = "err"
       THEN /\ worker' = [worker EXCEPT ![i] =
                            [@ EXCEPT !.st = "sleep",
                                      !.last_err = [kind |-> "upload",
                                                    attempt |-> worker[i].attempt]]]
            /\ UNCHANGED permits
       ELSE IF r = "no_etag"
       THEN MissingETag(i)
       ELSE Finish(i, OkPart(i))
    /\ WorkerFrame

RetryNeverWakes(i) ==
    /\ mode = "retry"
    /\ worker[i].st = "sleep"
    /\ FALSE
    /\ UNCHANGED vars

\* tokio::time::sleep(300 * attempt).await is over
RetryWake(i) ==
    /\ mode = "retry"
    /\ worker[i].st = "sleep"
    /\ NextAttempt(i, worker[i].last_err)
    /\ WorkerFrame

\* ------------------------------------------ aggregation of the JoinSet uploads
Unsorted(s) == s

RECURSIVE SortByKey(_)
\* Vec::sort_by_key(|part| part.part_number()): a stable sort by part number
SortByKey(s) ==
    IF s = <<>>
    THEN <<>>
    ELSE LET rest == SortByKey(SubSeq(s, 1, Len(s) - 1))
             p == s[Len(s)]
             k == Cardinality({j \in 1 .. Len(rest) :
                                 rest[j].part_number <= p.part_number})
         IN SubSeq(rest, 1, k) \o <<p>> \o SubSeq(rest, k + 1, Len(rest))

\* dropping the JoinSet aborts every task that is still in it: the task is
\* cancelled at the await it is suspended at and its future, with the permit
\* it owns, is dropped
AbortAll ==
    /\ worker' = [i \in Chunks |->
                    IF InFlight(i)
                    THEN [worker[i] EXCEPT !.st = "aborted", !.permit = FALSE,
                                           !.last_err = NoErr, !.attempt = 0,
                                           !.sent = 0, !.waited = 0,
                                           !.waited_prev = 0]
                    ELSE worker[i]]
    /\ permits' = permits + Cardinality({i \in Chunks : InFlight(i)})

KeepRunning ==
    UNCHANGED <<worker, permits>>

\* the function returns from the middle of the join loop: `tasks`, a JoinSet,
\* goes out of scope
DropJoinSet ==
    AbortAll

AbortHandles ==
    AbortAll

\* read_file_big returns from the middle of its loop: the remaining
\* JoinHandles of `tasks`, a Vec, are dropped, which detaches their tasks
DropHandles ==
    UNCHANGED <<worker, permits>>

AllButOneJoined(j) == Len(j) >= chunk_count - 1

\* join_next() returns None: the JoinSet is empty
AllJoined(j) == Len(j) = chunk_count

IgnoreErr(res) == FALSE

\* result.map_err(..)?.map_err(..)?: the task's output is an Err
IsErr(res) == res.tag = "err"

\* one iteration of `while let Some(result) = tasks.join_next().await`; the
\* last one runs on to the complete_multipart_upload call
JoinNext(i) ==
    /\ mode \in JoinSetModes
    /\ pc = "join"
    /\ Finished(i)
    /\ i \notin Range(joined)
    /\ joined' = Append(joined, i)
    /\ IF IsErr(worker[i].res)
       THEN /\ Fail
            /\ DropJoinSet
            /\ UNCHANGED <<completed_parts, complete_arg>>
       ELSE /\ UNCHANGED <<outcome, worker, permits>>
            /\ LET cp == Append(completed_parts, worker[i].res.part)
               IN IF AllJoined(joined')
                  THEN /\ completed_parts' = SortByKey(cp)
                       /\ complete_arg' = Append(complete_arg, completed_parts')
                       /\ pc' = "complete"
                  ELSE /\ completed_parts' = cp
                       /\ UNCHANGED <<pc, complete_arg>>
    /\ UNCHANGED <<inputs, calls, chunk_count, part_index, session, uploaded_size,
                   size, ranges, results, buf>>

\* --------------------------------------- upload_object_multipart (sequential)
\* ByteStream::read_from()...build().await?
SeqStream(r) ==
    /\ mode = "sequential"
    /\ pc = "seq_stream"
    /\ IF r = "err"
       THEN Fail
       ELSE /\ pc' = "seq_send"
            /\ UNCHANGED outcome
    /\ UNCHANGED <<inputs, calls, chunk_count, part_index, permits, worker, joined,
                   completed_parts, session, complete_arg, uploaded_size,
                   size, ranges, results, buf>>

\* upload_part()...send().await?, e_tag.ok_or_else(..)?, completed_parts.push
SeqSend(r) ==
    /\ mode = "sequential"
    /\ pc = "seq_send"
    /\ IF r \in {"err", "no_etag"}
       THEN /\ Fail
            /\ UNCHANGED <<part_index, completed_parts, complete_arg>>
       ELSE /\ UNCHANGED outcome
            /\ part_index' = part_index + 1
            /\ completed_parts' =
                 Append(completed_parts, CompletedPart(PartNumber(part_index)))
            /\ IF part_index' = chunk_count
               THEN /\ complete_arg' = Append(complete_arg, completed_parts')
                    /\ pc' = "complete"
               ELSE /\ pc' = "seq_stream"
                    /\ UNCHANGED complete_arg
    /\ UNCHANGED <<inputs, calls, chunk_count, permits, worker, joined, session,
                   uploaded_size, size, ranges, results, buf>>

\* ----------------------------------------------------------- finalization
\* complete_multipart_upload()...send().await?
CompleteMultipart(r) ==
    /\ mode \in UploadModes
    /\ pc = "complete"
    /\ IF r = "err"
       THEN /\ Fail
            /\ UNCHANGED session
       ELSE /\ session' = "completed"
            /\ pc' = "verify"
            /\ UNCHANGED outcome
    /\ UNCHANGED <<inputs, calls, chunk_count, part_index, permits, worker, joined,
                   completed_parts, complete_arg, uploaded_size, size, ranges,
                   results, buf>>

\* client.get_object()...send().await? fails
GetObjectFails ==
    /\ mode \in UploadModes
    /\ pc = "verify"
    /\ Fail
    /\ UNCHANGED <<inputs, calls, chunk_count, part_index, permits, worker, joined,
                   completed_parts, session, complete_arg, uploaded_size,
                   size, ranges, results, buf>>

SizeUnchecked(n) ==
    /\ pc' = "done"
    /\ outcome' = "Completed"

\* if uploaded_size != file_len { return Err(..) }  ..  Ok(())
SizeCheck(n) ==
    /\ pc' = "done"
    /\ outcome' = IF n # file_len THEN "Failed" ELSE "Completed"

\* get_object answers; n is content_length().unwrap_or(0) as u64
VerifySize(n) ==
    /\ mode \in UploadModes
    /\ pc = "verify"
    /\ uploaded_size' = n
    /\ SizeCheck(n)
    /\ UNCHANGED <<inputs, calls, chunk_count, part_index, permits, worker, joined,
                   completed_parts, session, complete_arg, size, ranges,
                   results, buf>>

\* ---------------------------------------------------------- read_file_big
RECURSIVE RangesOverlap(_, _, _)
RangesOverlap(start, sz, cs) ==
    IF start >= sz
    THEN <<>>
    ELSE <<<<start, Min(start + cs, sz - 1)>>>> \o RangesOverlap(start + cs, sz, cs)

RECURSIVE RangesFrom(_, _, _)
\* for start in (0..size).step_by(chunk_size) { end = (start + chunk_size - 1).min(size - 1) }
RangesFrom(start, sz, cs) ==
    IF start >= sz
    THEN <<>>
    ELSE <<<<start, Min(start + cs - 1, sz - 1)>>>> \o RangesFrom(start + cs, sz, cs)

RECURSIVE Concat(_)
\* for chunk in results { buf.extend_from_slice(&chunk) }
Concat(rs) ==
    IF rs = <<>> THEN <<>> ELSE rs[1] \o Concat(SubSeq(rs, 2, Len(rs)))

\* get_aws_object(..).await?, content_length().unwrap_or(0), the ranges loop
\* and Semaphore::new; with no range at all the function runs to its end
ReadBigHead(r) ==
    /\ mode = "read_big"
    /\ pc = "start"
    /\ IF r = "err"
       THEN /\ Fail
            /\ UNCHANGED <<size, ranges, chunk_count, permits>>
       ELSE /\ size' = IF r = "some" THEN file_len ELSE 0
            /\ ranges' = RangesFrom(0, size', chunk_size)
            /\ chunk_count' = Len(ranges')
            /\ permits' = chunks_workers
            /\ IF ranges' = <<>>
               THEN /\ pc' = "done"
                    /\ outcome' = "Completed"
               ELSE /\ pc' = "dispatch"
                    /\ UNCHANGED outcome
    /\ UNCHANGED <<inputs, calls, part_index, worker, joined, completed_parts,
                   session, complete_arg, uploaded_size, results, buf>>

\* the bytes the store sends for `Range: bytes=start-end`
RangeBytes(start, end) == SubSeq(object, start + 1, end + 1)

ReadSendFreesPermit(i, r) ==
    /\ mode = "read_big"
    /\ worker[i].st = "send"
    /\ IF r = "err"
       THEN Finish(i, ErrRes([kind |-> "get", attempt |-> 0]))
       ELSE /\ worker' = [worker EXCEPT ![i] =
                            [@ EXCEPT !.st = "collect", !.permit = FALSE]]
            /\ permits' = permits + 1
    /\ WorkerFrame

\* client.get_object()...range(range).send().await?
ReadSend(i, r) ==
    /\ mode = "read_big"
    /\ worker[i].st = "send"
    /\ IF r = "err"
       THEN Finish(i, ErrRes([kind |-> "get", attempt |-> 0]))
       ELSE /\ worker' = [worker EXCEPT ![i].st = "collect"]
            /\ UNCHANGED permits
    /\ WorkerFrame

\* out.body.collect().await?.into_bytes(); a body can end early when the
\* object is replaced by a shorter one while it is read
ReadCollect(i, r) ==
    /\ mode = "read_big"
    /\ worker[i].st = "collect"
    /\ LET start == worker[i].offset
           end == worker[i].offset + worker[i].len - 1
       IN IF r = "err"
          THEN Finish(i, ErrRes([kind |-> "body", attempt |-> 0]))
          ELSE IF r = "short"
          THEN Finish(i, OkBytes(RangeBytes(start, end - 1)))
          ELSE Finish(i, OkBytes(RangeBytes(start, end)))
    /\ WorkerFrame

\* one iteration of `for task in tasks { task.await .. results[i] = chunk }`;
\* the last one assembles the buffer.  The JoinHandles that are dropped on an
\* early return detach their tasks.
ReadJoin ==
    /\ mode = "read_big"
    /\ pc = "join"
    /\ LET i == Len(joined)
       IN /\ Finished(i)
          /\ joined' = Append(joined, i)
          /\ IF IsErr(worker[i].res)
             THEN /\ Fail
                  /\ DropHandles
                  /\ UNCHANGED <<results, buf>>
             ELSE /\ results' = [results EXCEPT ![i + 1] = worker[i].res.bytes]
                  /\ IF i + 1 = chunk_count
                     THEN /\ buf' = Concat(results')
                          /\ pc' = "done"
                          /\ outcome' = "Completed"
                     ELSE UNCHANGED <<pc, outcome, buf>>
                  /\ UNCHANGED <<worker, permits>>
    /\ UNCHANGED <<inputs, calls, chunk_count, part_index, completed_parts, session,
                   complete_arg, uploaded_size, size, ranges>>

Next ==
    \/ OpenFileFails
    \/ Plan
    \/ \E r \in CreateResponses : CreateMultipart(r)
    \/ Dispatch
    \/ \E i \in Chunks, r \in {"err", "ok"} : ParStream(i, r)
    \/ \E i \in Chunks, r \in {"err", "no_etag", "ok"} : ParSend(i, r)
    \/ \E i \in Chunks, r \in {"err", "ok"} : RetryStream(i, r)
    \/ \E i \in Chunks, r \in {"err", "no_etag", "ok"} : RetrySend(i, r)
    \/ \E i \in Chunks : RetryWake(i)
    \/ \E i \in Chunks : JoinNext(i)
    \/ \E r \in {"err", "ok"} : SeqStream(r)
    \/ \E r \in {"err", "no_etag", "ok"} : SeqSend(r)
    \/ \E r \in {"err", "ok"} : CompleteMultipart(r)
    \/ GetObjectFails
    \/ \E n \in 0 .. (MaxFileLen + 1) : VerifySize(n)
    \/ \E r \in {"err", "none", "some"} : ReadBigHead(r)
    \/ \E i \in Chunks, r \in {"err", "ok"} : ReadSend(i, r)
    \/ \E i \in Chunks, r \in {"err", "short", "full"} : ReadCollect(i, r)
    \/ ReadJoin

Spec == Init /\ [][Next]_vars

\* ------------------------------ utils/utils.rs, lib.rs: upload_object_multipart
\* The earlier sequential upload, kept in utils/utils.rs and in lib.rs with
\* the same body.  It runs as mode "legacy" under LegacySpec.

LegacyChunkCountUncorrected(fs, cs) == (fs \div cs) + 1

\* chunk_count = (file_size / chunk_size) + 1, less one when the remainder is 0
LegacyChunkCount(fs, cs) ==
    IF fs % cs = 0 THEN fs \div cs ELSE (fs \div cs) + 1

\* size_of_last_chunk = file_size % chunk_size, chunk_size when that is 0
SizeOfLastChunk(fs, cs) == IF fs % cs = 0 THEN cs ELSE fs % cs

\* this_chunk = if chunk_count - 1 == chunk_index { size_of_last_chunk }
\*              else { chunk_size }
LegacyThisChunk(i, fs, cs) ==
    IF LegacyChunkCount(fs, cs) - 1 = i THEN SizeOfLastChunk(fs, cs) ELSE cs

\* e_tag(upload_part_res.e_tag.unwrap_or_default()): tag 0 is the empty string
LegacyCompletedPart(pn, r) ==
    [part_number |-> pn, e_tag |-> IF r = "no_etag" THEN 0 ELSE ETag(pn)]

LegacyInit ==
    /\ mode = "legacy"
    /\ file_size \in {"some", "none"}
    /\ file_len \in 0 .. MaxFileLen
    /\ chunk_size \in 1 .. MaxChunkSize
    /\ max_chunks \in 1 .. MaxMaxChunks
    /\ chunks_workers = CHUNKS_WORKERS
    /\ pc = "start"
    /\ outcome = "none"
    /\ chunk_count = 0
    /\ part_index = 0
    /\ permits = 0
    /\ worker = [i \in Chunks |-> IdleWorker]
    /\ joined = <<>>
    /\ completed_parts = <<>>
    /\ session = "none"
    /\ complete_arg = <<>>
    /\ uploaded_size = -1
    /\ size = 0
    /\ ranges = <<>>
    /\ results = <<>>
    /\ buf = <<>>
    /\ NoCall

LegacyFrame == UNCHANGED <<inputs, calls, permits, worker, joined, size, ranges,
                           results, buf>>

\* the first statement of the function: create_multipart_upload().send().await?
\* and upload_id().unwrap_or_default(), which goes on without an upload id
LegacyCreate(r) ==
    /\ mode = "legacy"
    /\ pc = "start"
    /\ IF r = "err"
       THEN /\ Fail
            /\ UNCHANGED session
       ELSE /\ session' = Opened(r)
            /\ pc' = "plan"
            /\ UNCHANGED outcome
    /\ UNCHANGED <<chunk_count, part_index, completed_parts, complete_arg,
                   uploaded_size>>
    /\ LegacyFrame

\* File::open(file_name).await?.metadata().await? fails
LegacyOpenFileFails ==
    /\ mode = "legacy"
    /\ pc = "plan"
    /\ file_size = "none"
    /\ Fail
    /\ UNCHANGED <<chunk_count, part_index, completed_parts, session,
                   complete_arg, uploaded_size>>
    /\ LegacyFrame

\* from the file size to the first await of the part loop
LegacyPlan ==
    /\ mode = "legacy"
    /\ pc = "plan"
    /\ chunk_count' = LegacyChunkCount(file_len, chunk_size)
    /\ IF file_len = 0 \/ chunk_count' > max_chunks
       THEN Fail
       ELSE /\ pc' = "seq_stream"
            /\ UNCHANGED outcome
    /\ UNCHANGED <<part_index, completed_parts, session, complete_arg,
                   uploaded_size>>
    /\ LegacyFrame

\* ByteStream::read_from()...build().await?
LegacyStream(r) ==
    /\ mode = "legacy"
    /\ pc = "seq_stream"
    /\ IF r = "err"
       THEN Fail
       ELSE /\ pc' = "seq_send"
            /\ UNCHANGED outcome
    /\ UNCHANGED <<chunk_count, part_index, completed_parts, session,
                   complete_arg, uploaded_size>>
    /\ LegacyFrame

\* upload_part()...send().await? and upload_parts.push(..)
LegacySend(r) ==
    /\ mode = "legacy"
    /\ pc = "seq_send"
    /\ IF r = "err"
       THEN /\ Fail
            /\ UNCHANGED <<part_index, completed_parts, complete_arg>>
       ELSE /\ UNCHANGED outcome
            /\ part_index' = part_index + 1
            /\ completed_parts' =
                 Append(completed_parts,
                        LegacyCompletedPart(PartNumber(part_index), r))
            /\ IF part_index' = chunk_count
               THEN /\ complete_arg' = Append(complete_arg, completed_parts')
                    /\ pc' = "complete"
               ELSE /\ pc' = "seq_stream"
                    /\ UNCHANGED complete_arg
    /\ UNCHANGED <<chunk_count, session, uploaded_size>>
    /\ LegacyFrame

\* complete_multipart_upload()...send().await?
LegacyComplete(r) ==
    /\ mode = "legacy"
    /\ pc = "complete"
    /\ IF r = "err"
       THEN /\ Fail
            /\ UNCHANGED session
       ELSE /\ session' = "completed"
            /\ pc' = "verify"
            /\ UNCHANGED outcome
    /\ UNCHANGED <<chunk_count, part_index, completed_parts, complete_arg,
                   uploaded_size>>
    /\ LegacyFrame

\* get_aws_object(client, bucket, key).await? fails
LegacyGetObjectFails ==
    /\ mode = "legacy"
    /\ pc = "verify"
    /\ Fail
    /\ UNCHANGED <<chunk_count, part_index, completed_parts, session,
                   complete_arg, uploaded_size>>
    /\ LegacyFrame

\* if file_size != data_length { return Err(..) }  ..  Ok(())
LegacyVerify(n) ==
    /\ mode = "legacy"
    /\ pc = "verify"
    /\ uploaded_size' = n
    /\ pc' = "done"
    /\ outcome' = IF n # file_len THEN "Failed" ELSE "Completed"
    /\ UNCHANGED <<chunk_count, part_index, completed_parts, session,
                   complete_arg>>
    /\ LegacyFrame

LegacyNext ==
    \/ \E r \in CreateResponses : LegacyCreate(r)
    \/ LegacyOpenFileFails
    \/ LegacyPlan
    \/ \E r \in {"err", "ok"} : LegacyStream(r)
    \/ \E r \in {"err", "no_etag", "ok"} : LegacySend(r)
    \/ \E r \in {"err", "ok"} : LegacyComplete(r)
    \/ LegacyGetObjectFails
    \/ \E n \in 0 .. MaxFileLen : LegacyVerify(n)

LegacySpec == LegacyInit /\ [][LegacyNext]_vars

\* ------------------------- operations.rs and try_get_file: the simple calls
\* Strings are sequences of one-character strings.  The alphabet has a
\* letter, the characters of "s3://", and the characters that Url::parse
\* treats specially in a path: '/', '.' and '#'.
MaxTailLen == 4
MaxBucketLen == 2
MaxPrefixLen == 3

Strings(S, n) == UNION {[1 .. k -> S] : k \in 0 .. n}

S3Scheme == <<"s", "3", ":", "/", "/">>

\* what an argument of parse_s3_uri starts with: nothing, a scheme cut short,
\* "s3://", and two heads that are no scheme
Heads == {SubSeq(S3Scheme, 1, k) : k \in 0 .. 5}
             \cup {<<"3", ":", "/", "/">>, <<":", "/", "/">>}
TailChars == {"b", "/", ".", "#"}
HostChars == {"b", "."}

\* ASCII letters, and the characters a scheme goes on with (alphanumeric,
\* '+', '-', '.'), as far as the alphabet has them
Alpha == {"s", "b"}
SchemeChars == Alpha \cup {"3", "."}

\* Url::parse, scheme: the index of the ':' that ends the scheme, 0 when the
\* input does not start with one (ParseError::RelativeUrlWithoutBase)
SchemeEnd(u) ==
    LET Ends(k) == /\ u[k] = ":"
                   /\ u[1] \in Alpha
                   /\ \A j \in 2 .. (k - 1) : u[j] \in SchemeChars
    IN IF \E k \in 2 .. Len(u) : Ends(k)
       THEN CHOOSE k \in 2 .. Len(u) : Ends(k)
       ELSE 0

\* the first index from k on of a character of S in t, Len(t) + 1 if none
RECURSIVE Find(_, _, _)
Find(t, k, S) ==
    IF k > Len(t) \/ t[k] \in S THEN k ELSE Find(t, k + 1, S)

\* Url::parse, path state: the end of one path segment.  A ".." segment
\* removes the segment before it, a "." segment is dropped; either leaves an
\* empty segment when it is the last one.
EndSegment(seg, out, last) ==
    IF seg = <<".", ".">>
    THEN LET popped == IF out = <<>> THEN out
                       ELSE SubSeq(out, 1, Len(out) - 1)
         IN IF last THEN Append(popped, <<>>) ELSE popped
    ELSE IF seg = <<".">>
    THEN IF last THEN Append(out, <<>>) ELSE out
    ELSE Append(out, seg)

RECURSIVE PathSegments(_, _, _, _)
PathSegments(t, k, seg, out) ==
    IF k > Len(t) THEN EndSegment(seg, out, TRUE)
    ELSE IF t[k] = "/"
    THEN PathSegments(t, k + 1, <<>>, EndSegment(seg, out, FALSE))
    ELSE PathSegments(t, k + 1, Append(seg, t[k]), out)

RECURSIVE JoinSegments(_)
JoinSegments(segs) ==
    IF segs = <<>> THEN <<>>
    ELSE <<"/">> \o Head(segs) \o JoinSegments(Tail(segs))

\* Url::parse, the path of a URL: t is the input from the end of the
\* authority to the '#' of the fragment
UrlPath(t) ==
    IF t = <<>> THEN <<>>
    ELSE IF t[1] = "/" THEN JoinSegments(PathSegments(Tail(t), 1, <<>>, <<>>))
    ELSE t

\* Url::parse(uri) for a scheme that is not special, as "s3".  The strings of
\* the model have no '@', no '?' and no ':' after the scheme, so there is no
\* userinfo, port or query.  An empty host is no host (HostInternal::None).
UrlParse(u) ==
    LET k == SchemeEnd(u)
        rest == SubSeq(u, k + 1, Len(u))
        frag == Find(rest, 1, {"#"})
        body == SubSeq(rest, 1, frag - 1)
        authority == Len(body) >= 2 /\ body[1] = "/" /\ body[2] = "/"
        host_end == Find(body, 3, {"/"})
        host == IF authority THEN SubSeq(body, 3, host_end - 1) ELSE <<>>
    IN IF k = 0
       THEN [ok |-> FALSE, has_host |-> FALSE, host |-> <<>>, path |-> <<>>]
       ELSE [ok |-> TRUE,
             has_host |-> host # <<>>,
             host |-> host,
             path |-> IF authority
                      THEN UrlPath(SubSeq(body, host_end, Len(body)))
                      ELSE UrlPath(body)]

\* str::strip_prefix('/')
StripPrefixSlash(p) ==
    IF p # <<>> /\ p[1] = "/" THEN Some(Tail(p)) ELSE None

\* .filter(|s| !s.is_empty())
FilterNotEmpty(o) == IF o.some /\ o.val # <<>> THEN o ELSE None

Ok(p) == [tag |-> "ok", path |-> p, err |-> "none"]
Err(e) == [tag |-> "err", path |-> NoS3Path, err |-> e]

HostNeverMissing(url) == FALSE

\* parsed.host_str() is None
NoHost(url) == ~url.has_host

parse_s3_uri(u) ==
    LET url == UrlParse(u)
    IN IF ~url.ok THEN Err("ParseError")
       ELSE IF NoHost(url) THEN Err("InvalidS3Uri")
       ELSE Ok([bucket |-> url.host,
                prefix |-> FilterNotEmpty(StripPrefixSlash(url.path))])

\* S3Path::uri: format!("s3://{bucket}/{prefix}")
S3PathUri(p) ==
    S3Scheme \o p.bucket \o <<"/">>
        \o (IF p.prefix.some THEN p.prefix.val ELSE <<>>)

\* what the awaited get_object can give: Ok, a service error of one of the
\* kinds of GetObjectError, or an SdkError that is no service error
Responses ==
    {"Ok", "NoSuchKey", "InvalidObjectState", "Unhandled", "TimeoutError",
     "DispatchFailure", "ResponseError", "ConstructionFailure"}

\* SdkError::into_service_error: the service error itself, and
\* GetObjectError::Unhandled for the errors that came from no service answer
IntoServiceError(e) ==
    IF e \in {"NoSuchKey", "InvalidObjectState", "Unhandled"} THEN e
    ELSE "Unhandled"

NoneOnEveryError(r) == IF r = "Ok" THEN "Ok(Some)" ELSE "Ok(None)"

\* get.rs (and utils.rs, lib.rs): the match of try_get_file
try_get_file(r) ==
    IF r = "Ok" THEN "Ok(Some)"
    ELSE IF IntoServiceError(r) = "NoSuchKey" THEN "Ok(None)"
    ELSE "Err"

CallModes == {"try_get_file", "parse_s3_uri", "uri"}

CallInit ==
    /\ mode \in CallModes
    /\ file_size = "some" /\ file_len = 0
    /\ chunk_size = 1 /\ max_chunks = 1
    /\ chunks_workers = CHUNKS_WORKERS
    /\ pc = "start"
    /\ outcome = "none"
    /\ chunk_count = 0
    /\ part_index = 0
    /\ permits = 0
    /\ worker = [i \in Chunks |-> IdleWorker]
    /\ joined = <<>>
    /\ completed_parts = <<>>
    /\ session = "none"
    /\ complete_arg = <<>>
    /\ uploaded_size = -1
    /\ size = 0
    /\ ranges = <<>>
    /\ results = <<>>
    /\ buf = <<>>
    /\ uri \in IF mode = "parse_s3_uri"
               THEN {h \o t : h \in Heads, t \in Strings(TailChars, MaxTailLen)}
               ELSE {<<>>}
    /\ s3path \in IF mode = "uri"
                  THEN {[bucket |-> b, prefix |-> x] :
                          b \in Strings(HostChars, MaxBucketLen) \ {<<>>},
                          x \in {None} \cup
                                {Some(v) : v \in Strings(TailChars, MaxPrefixLen)
                                                   \ {<<>>}}}
                  ELSE {NoS3Path}
    /\ parsed = NoParsed
    /\ resp = "none"
    /\ got = "none"

CallFrame ==
    UNCHANGED <<inputs, outcome, chunk_count, part_index, permits, worker,
                joined, completed_parts, session, complete_arg,
                uploaded_size, size, ranges, results, buf>>

\* try_get_file, from the call to its return
TryGetFile(r) ==
    /\ mode = "try_get_file"
    /\ pc = "start"
    /\ resp' = r
    /\ got' = try_get_file(r)
    /\ pc' = "done"
    /\ UNCHANGED <<s3path, uri, parsed>>
    /\ CallFrame

\* parse_s3_uri(uri)
ParseS3Uri ==
    /\ mode = "parse_s3_uri"
    /\ pc = "start"
    /\ parsed' = parse_s3_uri(uri)
    /\ pc' = "done"
    /\ UNCHANGED <<s3path, uri, resp, got>>
    /\ CallFrame

\* s3path.uri()
Uri ==
    /\ mode = "uri"
    /\ pc = "start"
    /\ uri' = S3PathUri(s3path)
    /\ pc' = "from_uri"
    /\ UNCHANGED <<s3path, parsed, resp, got>>
    /\ CallFrame

\* S3Path::from_uri(&uri), which is parse_s3_uri(uri)
FromUri ==
    /\ mode = "uri"
    /\ pc = "from_uri"
    /\ parsed' = parse_s3_uri(uri)
    /\ pc' = "done"
    /\ UNCHANGED <<s3path, uri, resp, got>>
    /\ CallFrame

CallNext ==
    \/ \E r \in Responses : TryGetFile(r)
    \/ ParseS3Uri
    \/ Uri
    \/ FromUri

CallSpec == CallInit /\ [][CallNext]_vars

\* ------------------------------------------------------------- properties
ParallelModes == JoinSetModes \cup {"read_big"}

\* worker_budget: the size the semaphore was created with
Budget == IF mode = "read_big" THEN chunks_workers ELSE CHUNKS_WORKERS

Holders == {i \in Chunks : worker[i].permit}

Dispatched == 0 .. (part_index - 1)

\* C1: in a parallel transfer the workers that hold a permit, among them every
\* worker that may be executing its network call, are never more than the
\* worker budget.
C1_PermitsWithinBudget ==
    mode \in ParallelModes =>
        /\ Cardinality(Holders) <= Budget
        /\ \A i \in Chunks : InFlight(i) => i \in Holders

\* the budget is exhausted while chunks still wait to be dispatched
C1_Witness ==
    /\ mode = "retry"
    /\ pc = "dispatch"
    /\ part_index < chunk_count
    /\ Cardinality(Holders) = Budget
    /\ \E i \in Holders : worker[i].st = "send"

\* C2: every part list that complete_multipart_upload receives from a parallel
\* upload is in strictly ascending part-number order.
C2_PartsStrictlyAscending ==
    mode \in JoinSetModes =>
        \A c \in 1 .. Len(complete_arg) :
            \A j \in 1 .. (Len(complete_arg[c]) - 1) :
                complete_arg[c][j].part_number < complete_arg[c][j + 1].part_number

\* the workers' outputs were taken in the order 2, 0, 1
C2_Witness ==
    /\ mode \in JoinSetModes
    /\ Len(complete_arg) = 1
    /\ joined = <<2, 0, 1>>

\* C3: complete_multipart_upload is called only when every chunk index below
\* chunk_count has a Success outcome, and its part list holds each part number
\* 1..chunk_count exactly once, chunk i being part i + 1 with the tag the
\* store gave for it.
C3_CompleteOnlyWithAllParts ==
    mode \in JoinSetModes =>
        \A c \in 1 .. Len(complete_arg) :
            /\ \A i \in 0 .. (chunk_count - 1) : worker[i].st = "ok"
            /\ Len(complete_arg[c]) = chunk_count
            /\ \A i \in 0 .. (chunk_count - 1) :
                 Cardinality({j \in 1 .. Len(complete_arg[c]) :
                                complete_arg[c][j].part_number = i + 1}) = 1
            /\ \A i \in 0 .. (chunk_count - 1) :
                 \E j \in 1 .. Len(complete_arg[c]) :
                    complete_arg[c][j] = [part_number |-> i + 1,
                                          e_tag |-> ETag(i + 1)]

C3_Witness ==
    /\ mode = "retry"
    /\ chunk_count = 3
    /\ Len(complete_arg) = 1
    /\ session = "completed"

\* C4: in the retrying upload a chunk is reported as Failure only by a
\* response without ETag or after CHUNKS_MAX_RETRY failed attempts, and then
\* with the error of that last attempt; a chunk that succeeds at any attempt,
\* the last one included, is reported as Success with its part; the transfer
\* fails in the join loop only on a chunk reported as Failure.
C4_RetryOutcome ==
    /\ [](mode = "retry" =>
            /\ \A i \in Chunks :
                 /\ worker[i].st = "ok" =>
                      worker[i].res.part = CompletedPart(i + 1)
                 /\ worker[i].st = "err" =>
                      \/ worker[i].res.err.kind = "etag"
                      \/ /\ worker[i].res.err.kind \in {"stream", "upload"}
                         /\ worker[i].res.err.attempt = CHUNKS_MAX_RETRY
                 /\ worker[i].st = "sleep" =>
                      worker[i].last_err = [kind |-> "upload",
                                            attempt |-> worker[i].attempt]
            /\ (outcome = "Failed" /\ part_index > 0 /\ complete_arg = <<>>) =>
                 /\ joined # <<>>
                 /\ worker[joined[Len(joined)]].st = "err"
                 /\ \A k \in 1 .. (Len(joined) - 1) : worker[joined[k]].st = "ok")
    /\ [][\A i \in Chunks :
            (mode = "retry" /\ InFlight(i) /\ worker'[i].st = "err"
               /\ worker'[i].res.err.kind # "etag")
              => worker[i].attempt = CHUNKS_MAX_RETRY]_vars

\* one chunk succeeded at its last attempt, another failed all its attempts
C4_Witness ==
    /\ mode = "retry"
    /\ \E i, j \in Chunks :
         /\ worker[i].st = "ok"
         /\ worker[i].last_try
         /\ worker[j].st = "err"
         /\ worker[j].res.err = [kind |-> "upload", attempt |-> CHUNKS_MAX_RETRY]

CeilDiv(a, b) == CHOOSE n \in 0 .. a : n * b >= a /\ (n - 1) * b < a

\* rs, a sequence of inclusive byte ranges, partitions [0, total) into chunks
\* of cs bytes
Partition(rs, total, cs) ==
    /\ Len(rs) = CeilDiv(total, cs)
    /\ rs[1][1] = 0
    /\ rs[Len(rs)][2] = total - 1
    /\ \A k \in 1 .. Len(rs) :
         /\ rs[k][1] <= rs[k][2]
         /\ rs[k][2] - rs[k][1] + 1 <= cs
    /\ \A k \in 1 .. (Len(rs) - 1) :
         /\ rs[k + 1][1] = rs[k][2] + 1
         /\ rs[k][2] - rs[k][1] + 1 = cs

UploadRanges ==
    [k \in 1 .. chunk_count |->
        <<Offset(k - 1, chunk_size),
          Offset(k - 1, chunk_size)
            + ThisChunkSize(k - 1, file_len, chunk_size) - 1>>]

\* C5: for every size > 0 and chunk size > 0 the chunk ranges of the uploads
\* and the byte ranges of read_file_big partition [0, size): ascending,
\* contiguous, disjoint, complete, only the last one shorter than the chunk
\* size, ceil(size / chunk_size) of them; every task works on its range.
C5_RangesPartition ==
    /\ (mode \in UploadModes /\ chunk_count > 0) =>
          Partition(UploadRanges, file_len, chunk_size)
    /\ (mode = "read_big" /\ size > 0) =>
          /\ Partition(ranges, size, chunk_size)
          /\ chunk_count = Len(ranges)
    /\ \A i \in Chunks :
         worker[i].st # "idle" =>
            <<worker[i].offset, worker[i].offset + worker[i].len - 1>>
               = IF mode = "read_big" THEN ranges[i + 1] ELSE UploadRanges[i + 1]

\* a file of 3 bytes in chunks of 2: the second, last chunk has 1 byte
C5_Witness ==
    /\ mode = "retry"
    /\ file_len = 3
    /\ chunk_size = 2
    /\ chunk_count = 2
    /\ worker[1].st = "ok"
    /\ worker[1].len = 1

\* C6: a completed read_file_big returns the chunks concatenated in ascending
\* offset order, and that is the byte sequence that was split into ranges
\* whenever every chunk request returned its whole range.
C6_ReadBigRoundTrip ==
    (mode = "read_big" /\ outcome = "Completed") =>
        /\ buf = Concat([k \in 1 .. chunk_count |-> worker[k - 1].res.bytes])
        /\ (\A i \in 0 .. (chunk_count - 1) :
               Len(worker[i].res.bytes) = worker[i].len)
             => buf = SubSeq(object, 1, size)

C6_Witness ==
    /\ mode = "read_big"
    /\ outcome = "Completed"
    /\ chunk_count = 3
    /\ chunks_workers = 2
    /\ buf = <<1, 2, 3>>

\* C7: once the store has reported a size for the uploaded object that
\* differs from the file length, the upload is Failed.
C7_SizeMismatchFails ==
    (mode \in UploadModes /\ uploaded_size # -1 /\ uploaded_size # file_len) =>
        /\ pc = "done"
        /\ outcome = "Failed"

C7_Witness ==
    /\ mode = "retry"
    /\ session = "completed"
    /\ \A i \in 0 .. (chunk_count - 1) : worker[i].st = "ok"
    /\ uploaded_size # -1
    /\ uploaded_size # file_len

\* C8: if a chunk of a parallel upload ended in Failure,
\* complete_multipart_upload is not called and the function can only end
\* Failed.
C8_ChunkFailureFailsUpload ==
    (mode \in JoinSetModes /\ \E i \in Chunks : worker[i].st = "err") =>
        /\ complete_arg = <<>>
        /\ session # "completed"
        /\ outcome # "Completed"
        /\ pc \in {"dispatch", "join", "done"}
        /\ pc = "done" => outcome = "Failed"

C8_Witness ==
    /\ mode = "parallel"
    /\ pc = "done"
    /\ outcome = "Failed"
    /\ \E i \in Chunks : worker[i].st = "err" /\ i \in Range(joined)
    /\ \E i \in Chunks : worker[i].st = "ok" /\ i \in Range(joined)

\* C9, as claimed: no worker of a parallel upload is ever interrupted.
C9_NoWorkerInterrupted ==
    mode \in JoinSetModes => \A i \in Chunks : worker[i].st # "aborted"

\* C9, amended: when a parallel upload fails on a chunk reported as Failure,
\* no sibling worker goes on: every worker that was in flight has been
\* aborted at its await point, has given its permit back and has no output.
C9_SiblingsAborted ==
    (mode \in JoinSetModes /\ pc = "done") =>
        \A i \in Chunks :
            /\ ~InFlight(i)
            /\ ~worker[i].permit
            /\ ~worker[i].late
            /\ worker[i].st = "aborted" =>
                 /\ outcome = "Failed"
                 /\ worker[i].res = NoRes

C9_Witness ==
    /\ mode = "retry"
    /\ pc = "done"
    /\ outcome = "Failed"
    /\ \E i \in Chunks : worker[i].st = "aborted"
    /\ \E i \in Chunks : worker[i].st = "err"

\* read_file_big alone
ReadInit ==
    /\ Init
    /\ mode = "read_big"

ReadNext ==
    \/ \E r \in {"err", "none", "some"} : ReadBigHead(r)
    \/ Dispatch
    \/ \E i \in Chunks, r \in {"err", "ok"} : ReadSend(i, r)
    \/ \E i \in Chunks, r \in {"err", "short", "full"} : ReadCollect(i, r)
    \/ ReadJoin

\* The runtime keeps polling a spawned task and every call to the store
\* returns: a task that is suspended at a call is eventually resumed.
ReadFairSpec ==
    /\ ReadInit
    /\ [][ReadNext]_vars
    /\ \A i \in Chunks :
         /\ WF_vars(\E r \in {"err", "ok"} : ReadSend(i, r))
         /\ WF_vars(\E r \in {"err", "short", "full"} : ReadCollect(i, r))

\* C10: after read_file_big failed on a chunk request, no chunk worker is
\* interrupted: each worker in flight runs to the end of its task, and the
\* results and the buffer of the failed download do not change any more.
C10_ReadBigWorkersDrain ==
    /\ [](mode = "read_big" => \A i \in Chunks : worker[i].st # "aborted")
    /\ [][outcome = "Failed" => results' = results /\ buf' = buf]_vars
    /\ \A i \in Chunks :
         (mode = "read_big" /\ outcome = "Failed" /\ InFlight(i))
            ~> (Finished(i) /\ worker[i].late)

C10_Witness ==
    /\ mode = "read_big"
    /\ outcome = "Failed"
    /\ \E i \in Chunks : worker[i].st = "ok" /\ worker[i].late

\* ---------------------------------------------------------------------------
\* C11: whenever an upload ends Failed after its multipart session was opened,
\* the session has been aborted: no open multipart session remains at the
\* terminal state.
OpenSession == session \in {"open", "open_no_id"}

C11_NoOpenSessionAfterFailure ==
    (mode \in UploadModes /\ pc = "done" /\ outcome = "Failed")
        => ~OpenSession

\* ---------------------------------------------------------------------------
\* C12: an upload of a source whose size is 0 ends Failed without any store
\* call: no multipart session is created, no part is uploaded, no completion
\* or size query is issued.
NoStoreCall ==
    /\ session = "none"
    /\ \A i \in Chunks : worker[i] = IdleWorker
    /\ part_index = 0
    /\ completed_parts = <<>>
    /\ complete_arg = <<>>
    /\ uploaded_size = -1

C12_EmptySourceRejected ==
    (mode \in UploadModes /\ file_len = 0)
        => /\ pc \in {"start", "done"}
           /\ NoStoreCall
           /\ pc = "done" => outcome = "Failed"

C12_Witness ==
    /\ mode = "retry" /\ file_len = 0
    /\ pc = "done" /\ outcome = "Failed" /\ NoStoreCall

\* ---------------------------------------------------------------------------
\* C13: an upload whose chunk count ceil(total_size / chunk_size) exceeds
\* max_chunks ends Failed before a session is opened and without any chunk
\* dispatched.
C13_TooManyChunksRejected ==
    (mode \in UploadModes /\ file_len > 0
        /\ CeilDiv(file_len, chunk_size) > max_chunks)
        => /\ pc \in {"start", "done"}
           /\ NoStoreCall
           /\ pc = "done" => outcome = "Failed"

C13_Witness ==
    /\ mode = "parallel" /\ file_len = 4 /\ chunk_size = 1 /\ max_chunks = 3
    /\ chunk_count = 4
    /\ pc = "done" /\ outcome = "Failed" /\ NoStoreCall

\* ---------------------------------------------------------------------------
\* C14: read_file_big of an object whose declared content length is 0 is
\* rejected with an error, not completed with an empty result.
C14_EmptyObjectRejected ==
    (mode = "read_big" /\ pc = "done" /\ size = 0) => outcome = "Failed"

\* ---------------------------------------------------------------------------
\* C15: read_file_big compares the assembled byte count with the declared
\* content length and fails on a mismatch, even when every chunk request
\* succeeded.
C15_ReadBigSizeChecked ==
    (mode = "read_big" /\ pc = "done" /\ outcome = "Completed")
        => Len(buf) = size

\* ---------------------------------------------------------------------------
\* C16: in the retrying worker, for every chunk and every two consecutive
\* retries, the delay waited before the later retry is strictly greater than
\* the delay waited before the earlier one, whatever made the attempts fail.
\* Retry k is attempt k + 1, so from attempt 3 on a worker has made two
\* consecutive retries.
C16_DelayStrictlyIncreasing ==
    \A i \in Chunks :
        (mode = "retry" /\ InFlight(i) /\ worker[i].attempt >= 3)
            => worker[i].waited > worker[i].waited_prev

\* ---------------------------------------------------------------------------
\* C17: in the retrying worker every attempt issues exactly one upload_part
\* call: an attempt that ends, by going to the next attempt or by ending the
\* task with the chunk's result, has sent exactly one.
AttemptEnds(i) ==
    /\ mode = "retry"
    /\ InFlight(i)
    /\ \/ worker'[i].attempt = worker[i].attempt + 1
       \/ worker'[i].st \in DoneSt

C17_OneCallPerAttempt ==
    [][\A i \in Chunks : AttemptEnds(i) => worker[i].sent = 1]_vars

\* ---------------------------------------------------------------------------
\* C18: a worker's permit is returned on every exit path of the worker
\* (success, failed stream build, failed upload_part, missing ETag, task
\* aborted): a worker that has ended holds no permit, every permit is either
\* available or held by a worker in flight, and once all the workers that
\* were started have ended the available permits equal the budget again.
Ended(i) == worker[i].st \in DoneSt \cup {"aborted"}

C18_PermitsReturned ==
    (mode \in ParallelModes /\ part_index > 0)
        => /\ \A i \in Chunks : Ended(i) => ~worker[i].permit
           /\ permits + Cardinality(Holders) = Budget
           /\ (\A i \in Dispatched : Ended(i)) => permits = Budget

\* three workers have ended, one after failed stream builds, one on a missing
\* ETag, one aborted, and the budget is whole again
C18_Witness ==
    /\ mode = "retry" /\ pc = "done" /\ part_index = 3
    /\ \E i, j, k \in Dispatched :
          /\ worker[i].st = "err" /\ worker[i].res.err.kind = "stream"
          /\ worker[j].st = "err" /\ worker[j].res.err.kind = "etag"
          /\ worker[k].st = "aborted"
    /\ permits = Budget

\* ---------------------------------------------------------------------------
\* C19: an upload goes through its phases in the order Planning, Dispatching,
\* Aggregating, Finalizing: create_multipart_upload precedes every
\* upload_part; the workers are started in ascending chunk-index order, each
\* only after its permit was acquired; complete_multipart_upload is issued
\* only after every worker has ended; the size is queried only after the
\* completion succeeded; and no earlier phase is entered again.
Rank(p) ==
    CASE p = "start" -> 0
      [] p = "create" -> 1
      [] p \in {"dispatch", "seq_stream", "seq_send"} -> 2
      [] p = "join" -> 3
      [] p = "complete" -> 4
      [] p = "verify" -> 5
      [] p = "done" -> 6

Started == {i \in Chunks : worker[i].st # "idle"}

C19_PhaseState ==
    mode \in UploadModes =>
        /\ (Started # {} \/ pc \in {"seq_stream", "seq_send"} \/ part_index > 0)
               => session \in {"open", "completed"}
        /\ mode \in JoinSetModes => Started = Dispatched
        /\ (pc \in {"complete", "verify"} \/ session = "completed")
               => /\ part_index = chunk_count
                  /\ mode \in JoinSetModes =>
                        \A i \in 0 .. (chunk_count - 1) : worker[i].st = "ok"
        /\ (pc = "verify" \/ uploaded_size # -1) => session = "completed"

C19_PhaseStep ==
    mode \in UploadModes =>
        /\ Rank(pc') >= Rank(pc)
        /\ \A i \in Chunks :
             (worker[i].st = "idle" /\ worker'[i].st # "idle")
                 => /\ i = part_index
                    /\ part_index' = i + 1
                    /\ permits > 0
                    /\ permits' = permits - 1
                    /\ worker'[i].permit

C19_PhaseOrder == [](C19_PhaseState) /\ [][C19_PhaseStep]_vars

\* a retrying upload of three chunks, joined out of index order, has completed
C19_Witness ==
    /\ mode = "retry" /\ pc = "done" /\ outcome = "Completed"
    /\ chunk_count = 3 /\ joined = <<1, 2, 0>>
    /\ session = "completed" /\ uploaded_size = file_len

\* ---------------------------------------------------------------------------
\* C20: if create_multipart_upload fails, or succeeds without returning an
\* upload id, the upload ends Failed without any worker started and without
\* any upload_part call.
C20_NoSessionNoWork ==
    (mode \in UploadModes /\ session \in {"none", "open_no_id"})
        => /\ pc \in {"start", "create", "done"}
           /\ pc = "done" => outcome = "Failed"
           /\ session = "open_no_id" => pc = "done"
           /\ \A i \in Chunks : worker[i] = IdleWorker
           /\ part_index = 0
           /\ completed_parts = <<>>
           /\ complete_arg = <<>>

C20_Witness ==
    /\ mode = "parallel" /\ session = "open_no_id"
    /\ pc = "done" /\ outcome = "Failed"
    /\ chunk_count >= 1
    /\ \A i \in Chunks : worker[i] = IdleWorker

\* ---------------------------------------------------------------------------
\* C21: every transfer invocation ends in exactly one terminal outcome,
\* Completed or Failed, and there is no whole-transfer retry: within one
\* invocation create_multipart_upload and complete_multipart_upload are each
\* issued at most once, and after a Failed outcome the orchestrator dispatches
\* no further chunk and issues no further store call.
C21_OneOutcome ==
    /\ outcome \in {"none", "Completed", "Failed"}
    /\ pc = "done" <=> outcome # "none"
    /\ Len(complete_arg) <= 1

C21_Terminal ==
    /\ outcome # "none"
         => /\ UNCHANGED <<pc, outcome, part_index, joined, completed_parts,
                           session, complete_arg, uploaded_size, size, ranges,
                           buf>>
            /\ \A i \in Chunks : worker[i].st = "idle"
                                      => worker'[i].st = "idle"
    /\ pc \in {"create", "complete"} => pc' # pc
    /\ pc' = "create" => pc = "start"
    /\ pc' = "complete" => pc \in {"join", "seq_send"}
    /\ session # "none" => session' \in {session, "completed"}
    /\ complete_arg # <<>> => complete_arg' = complete_arg

C21_NoWholeTransferRetry == [](C21_OneOutcome) /\ [][C21_Terminal]_vars

\* the completion call of a retrying upload has failed: the invocation is
\* over with one create and one completion call issued
C21_Witness ==
    /\ mode = "retry" /\ pc = "done" /\ outcome = "Failed"
    /\ session = "open" /\ Len(complete_arg) = 1
    /\ \A i \in 0 .. (chunk_count - 1) : worker[i].st = "ok"

\* ---------------------------------------------------------------------------
\* C22: after a chunked transfer has been reported Failed because of a chunk
\* failure, at most worker_budget further chunk network calls complete, those
\* of the workers in flight at that moment, whose results are discarded, and
\* no new chunk worker is started.  A worker makes one chunk call at a time,
\* so the calls that can still complete are those of the workers that ended
\* after the failure and of the workers still in flight.
ChunkFailureReported ==
    /\ mode \in ParallelModes
    /\ pc = "done" /\ outcome = "Failed"
    /\ joined # <<>>
    /\ IsErr(worker[joined[Len(joined)]].res)

LateWorkers == {i \in Chunks : worker[i].late \/ InFlight(i)}

C22_LateState ==
    ChunkFailureReported
        => /\ Cardinality(LateWorkers) <= Budget
           /\ \A i \in Chunks : worker[i].late => i \notin Range(joined)

C22_LateStep ==
    ChunkFailureReported
        => /\ UNCHANGED <<part_index, joined, results, buf, completed_parts>>
           /\ \A i \in Chunks :
                /\ worker[i].st = "idle" => worker'[i].st = "idle"
                /\ ~InFlight(i) => worker'[i] = worker[i]
                /\ (mode = "read_big" /\ worker[i].st = "collect")
                      => worker'[i].st # "send"

C22_BoundedLateCalls == [](C22_LateState) /\ [][C22_LateStep]_vars

\* read_file_big with a budget of two: chunk 0 has failed, and the two
\* workers that were in flight then have ended since
C22_Witness ==
    /\ ChunkFailureReported
    /\ mode = "read_big" /\ chunks_workers = 2 /\ chunk_count = 3
    /\ worker[1].late /\ worker[2].late
    /\ Cardinality(LateWorkers) = Budget

\* ---------------------------------------------------------------------------
\* C23: the earlier sequential upload_object_multipart (lib.rs and
\* utils/utils.rs) fails on a plan error, a file size of 0 or a chunk count
\* above max_chunks, with no remote side effect: no multipart session has
\* been created at the moment it returns the error.
PlanError == file_len = 0 \/ CeilDiv(file_len, chunk_size) > max_chunks

C23_PlanErrorWithoutSession ==
    (mode = "legacy" /\ pc = "done" /\ PlanError)
        => outcome = "Failed" /\ session = "none"

\* ---------------------------------------------------------------------------
\* C24: try_get_file returns Ok(None) exactly when the store answers the
\* get_object request with NoSuchKey, Ok(Some(object)) when the request
\* succeeds, and an error for every other failure.
C24_NoneOnlyForMissingKey ==
    (mode = "try_get_file" /\ pc = "done")
        => /\ got = "Ok(None)" <=> resp = "NoSuchKey"
           /\ got = "Ok(Some)" <=> resp = "Ok"
           /\ got = "Err" <=> resp \notin {"Ok", "NoSuchKey"}
           /\ got \in {"Ok(None)", "Ok(Some)", "Err"}

\* a request that timed out is an error, not a missing key
C24_Witness ==
    /\ mode = "try_get_file" /\ pc = "done"
    /\ resp = "TimeoutError" /\ got = "Err"

\* ---------------------------------------------------------------------------
\* C25: parse_s3_uri of a URI of the form s3://bucket[/path] yields an S3Path
\* whose bucket is the URI's host and whose prefix is the path with its single
\* leading '/' removed, kept verbatim including a trailing '/', and is None
\* when that remainder is empty.
BucketEnd(u) == Find(u, Len(S3Scheme) + 1, {"/"})
BucketText(u) == SubSeq(u, Len(S3Scheme) + 1, BucketEnd(u) - 1)
PathText(u) == SubSeq(u, BucketEnd(u) + 1, Len(u))

\* s3://bucket[/path] with a bucket and a path of the characters of a URI path
IsS3Form(u) ==
    /\ Len(u) > Len(S3Scheme)
    /\ SubSeq(u, 1, Len(S3Scheme)) = S3Scheme
    /\ BucketText(u) # <<>>
    /\ \A k \in 1 .. Len(u) : u[k] # "#"

C25_PrefixVerbatim ==
    (mode = "parse_s3_uri" /\ pc = "done" /\ IsS3Form(uri))
        => parsed = Ok([bucket |-> BucketText(uri),
                        prefix |-> IF PathText(uri) = <<>> THEN None
                                   ELSE Some(PathText(uri))])

\* ---------------------------------------------------------------------------
\* C26: S3Path::uri renders "s3://{bucket}/{prefix}", with the empty string
\* for a None prefix, and parsing its result gives back the same S3Path, for
\* every bucket and every prefix that is None or a non-empty string.
C26_UriRoundTrip ==
    (mode = "uri" /\ pc = "done")
        => /\ uri = S3Scheme \o s3path.bucket \o <<"/">> \o s3path.prefix.val
           /\ parsed = Ok(s3path)

\* ---------------------------------------------------------------------------
\* C27: parse_s3_uri returns an error, never an S3Path, for every input that
\* has no URI scheme and host, that is, no "scheme://host" at its start.
HasSchemeAndHost(u) ==
    \E k \in 2 .. (Len(u) - 3) :
        /\ \A j \in 1 .. (k - 1) : u[j] \notin {":", "/", "#"}
        /\ u[k] = ":" /\ u[k + 1] = "/" /\ u[k + 2] = "/"
        /\ u[k + 3] \notin {"/", "#"}

C27_NoSchemeNoPath ==
    (mode = "parse_s3_uri" /\ pc = "done" /\ ~HasSchemeAndHost(uri))
        => parsed.tag = "err" /\ parsed.path = NoS3Path

\* "b/b/", a bucket and a path without a scheme, is refused
C27_Witness ==
    /\ mode = "parse_s3_uri" /\ pc = "done"
    /\ uri = <<"b", "/", "b", "/">>
    /\ ~HasSchemeAndHost(uri)
    /\ parsed = Err("ParseError")

\* ---------------------------------------------------------------------------
\* C28: in the parallel uploads and in read_file_big, workers for all
\* chunk_count chunks are started before the orchestrator inspects the outcome
\* of any worker, so the failure of a chunk never prevents a later chunk from
\* being dispatched.
C28_AllStartedState ==
    mode \in ParallelModes =>
        /\ (joined # <<>> \/ pc \in {"join", "complete", "verify"}
               \/ (pc = "done" /\ part_index > 0))
              => /\ part_index = chunk_count
                 /\ \A i \in 0 .. (chunk_count - 1) : worker[i].st # "idle"
        /\ (pc = "dispatch" /\ permits > 0) => ENABLED Dispatch

C28_InspectStep ==
    (mode \in ParallelModes /\ (joined' # joined \/ outcome' = "Failed"))
        => (part_index = chunk_count \/ part_index = 0)

C28_AllStartedBeforeJoin == [](C28_AllStartedState) /\ [][C28_InspectStep]_vars

\* chunks 0 and 1 took the two permits, chunk 0 has failed, and chunk 2 was
\* dispatched all the same, before any outcome was looked at
C28_Witness ==
    /\ mode = "retry" /\ pc = "join" /\ joined = <<>>
    /\ chunk_count = 3 /\ part_index = 3
    /\ worker[0].st = "err"
    /\ InFlight(1) /\ InFlight(2)

\* ---------------------------------------------------------------------------
\* C29: in upload_object_multipart_parallel_retry a worker keeps its permit
\* from dispatch until its final outcome, including during the backoff sleeps
\* between attempts; hence the chunks that have been dispatched but have not
\* yet produced their final outcome are never more than CHUNKS_WORKERS, and a
\* chunk waiting in backoff blocks the dispatch of a further chunk when the
\* budget is exhausted.
Pending == {i \in Dispatched : InFlight(i)}

C29_PermitState ==
    mode = "retry" =>
        /\ \A i \in Chunks : InFlight(i) => worker[i].permit
        /\ Cardinality(Pending) <= CHUNKS_WORKERS
        /\ (pc = "dispatch" /\ Cardinality(Pending) = CHUNKS_WORKERS)
              => permits = 0 /\ ~ENABLED Dispatch

C29_PermitStep ==
    mode = "retry" =>
        \A i \in Chunks :
            (worker[i].permit /\ ~worker'[i].permit) => ~InFlight(i)'

C29_PermitHeldThroughBackoff == [](C29_PermitState) /\ [][C29_PermitStep]_vars

\* every permit is held by a chunk that sleeps between two attempts, and a
\* chunk that is still to be dispatched has to wait
C29_Witness ==
    /\ mode = "retry" /\ pc = "dispatch" /\ part_index < chunk_count
    /\ Cardinality(Pending) = CHUNKS_WORKERS
    /\ \A i \in Pending : worker[i].st = "sleep" /\ worker[i].permit
    /\ permits = 0

\* ---------------------------------------------------------------------------
\* C30: in the retrying worker, an upload_part response that succeeds but
\* carries no ETag ends the chunk as Failure at once: it is not retried, no
\* backoff is waited, and the remaining attempts are not used.
C30_NoRetryState ==
    mode = "retry" =>
        \A i \in Chunks :
            /\ InFlight(i) => worker[i].last_err.kind # "etag"
            /\ worker[i].res.err.kind = "etag" => worker[i].st = "err"
            /\ worker[i].early => worker[i].res.err.kind = "etag"

C30_NoRetryStep ==
    mode = "retry" =>
        \A i \in Chunks :
            (worker[i].res.err.kind # "etag" /\ worker'[i].res.err.kind = "etag")
                => /\ worker[i].st = "send"
                   /\ worker'[i].st = "err"
                   /\ ~worker'[i].permit
                   /\ worker'[i].early <=> worker[i].attempt < CHUNKS_MAX_RETRY

C30_MissingETagEndsChunk == [](C30_NoRetryState) /\ [][C30_NoRetryStep]_vars

\* a chunk has failed on a missing ETag with attempts left, and the upload
\* has failed on it
C30_Witness ==
    /\ mode = "retry" /\ pc = "done" /\ outcome = "Failed"
    /\ \E i \in Dispatched :
          /\ worker[i].st = "err" /\ worker[i].res.err.kind = "etag"
          /\ worker[i].early
          /\ joined # <<>> /\ joined[Len(joined)] = i

\* ---------------------------------------------------------------------------
\* The parallel transfers under fair scheduling.  The orchestrating function
\* is one task and every worker is one task; the runtime polls a task that
\* can go on, and every call to the store or to the file system returns, so
\* a step of a task that stays possible is eventually taken.  The file size
\* is passed in and max_chunks is the largest of the model, which leaves the
\* plan every chunk count and its rejection.
ParallelInit ==
    /\ Init
    /\ mode \in ParallelModes
    /\ file_size = "some"
    /\ max_chunks = MaxMaxChunks

Orchestrator ==
    \/ Plan
    \/ \E r \in CreateResponses : CreateMultipart(r)
    \/ Dispatch
    \/ \E i \in Chunks : JoinNext(i)
    \/ \E r \in {"err", "ok"} : CompleteMultipart(r)
    \/ GetObjectFails
    \/ \E n \in 0 .. (MaxFileLen + 1) : VerifySize(n)
    \/ \E r \in {"err", "none", "some"} : ReadBigHead(r)
    \/ ReadJoin

WorkerTask(i) ==
    \/ \E r \in {"err", "ok"} : ParStream(i, r)
    \/ \E r \in {"err", "no_etag", "ok"} : ParSend(i, r)
    \/ \E r \in {"err", "ok"} : RetryStream(i, r)
    \/ \E r \in {"err", "no_etag", "ok"} : RetrySend(i, r)
    \/ RetryWake(i)
    \/ \E r \in {"err", "ok"} : ReadSend(i, r)
    \/ \E r \in {"err", "short", "full"} : ReadCollect(i, r)

ParallelNext ==
    \/ Orchestrator
    \/ \E i \in Chunks : WorkerTask(i)

ParallelFairSpec ==
    /\ ParallelInit
    /\ [][ParallelNext]_vars
    /\ WF_vars(Orchestrator)
    /\ \A i \in Chunks : WF_vars(WorkerTask(i))

\* C31: with a worker budget of at least 1 and every store call eventually
\* returning, every parallel transfer eventually reaches a terminal outcome:
\* the dispatch loop never waits forever for a permit, every retry loop ends
\* after at most CHUNKS_MAX_RETRY attempts, and the aggregation loop ends once
\* every worker has ended.
C31_ParallelTransfersEnd ==
    /\ [](\A i \in Chunks : worker[i].attempt <= CHUNKS_MAX_RETRY)
    /\ (mode \in ParallelModes /\ Budget >= 1)
          ~> (pc = "done" /\ outcome \in {"Completed", "Failed"})

\* read_file_big with one permit for three chunks has completed: the dispatch
\* loop waited twice for the permit to come back
C31_Witness ==
    /\ mode = "read_big" /\ chunks_workers = 1 /\ chunk_count = 3
    /\ pc = "done" /\ outcome = "Completed"
    /\ permits = 1

\* ---------------------------------------------------------------------------
\* C32: the two chunk planners agree: for every file_size > 0 and
\* chunk_size > 0 the earlier computation (chunk_count = file_size /
\* chunk_size + 1 and last size = file_size mod chunk_size, corrected to
\* chunk_count - 1 and chunk_size when the remainder is 0) yields the same
\* chunk count and the same length for every chunk as the current one
\* (chunk_count = (file_size + chunk_size - 1) / chunk_size, length =
\* min(chunk_size, file_size - offset)).
PlannersAgree(fs, cs) ==
    /\ LegacyChunkCount(fs, cs) = ChunkCount(fs, cs)
    /\ \A i \in 0 .. (LegacyChunkCount(fs, cs) - 1) :
          /\ LegacyThisChunk(i, fs, cs) = ThisChunkSize(i, fs, cs)
          /\ LegacyThisChunk(i, fs, cs) >= 1

C32_PlannersAgree ==
    (mode = "legacy" /\ file_len > 0)
        => /\ PlannersAgree(file_len, chunk_size)
           /\ chunk_count > 0
                 => chunk_count = ChunkCount(file_len, chunk_size)

\* the earlier upload has sent a file of two full chunks, the case in which
\* it corrects its chunk count and its last size
C32_Witness ==
    /\ mode = "legacy" /\ pc = "done" /\ outcome = "Completed"
    /\ file_len = 4 /\ chunk_size = 2
    /\ chunk_count = 2 /\ Len(completed_parts) = 2
    /\ SizeOfLastChunk(file_len, chunk_size) = 2

====
